---- MODULE Spec2Model ----
(***************************************************************************)
(* deadtrees-upload: the batch coordinator (cli.main / workflow.do_upload), *)
(* the session checkpoint (dedup.UploadSessionState), the chunked transfer  *)
(* engine (upload.upload_file) and the credential (auth.AuthSession).       *)
(*                                                                          *)
(* Spec            the batch: runs against one directory, crashes, resume.  *)
(* SpecEngine      one upload_file call, arguments drawn from bounded sets. *)
(* SpecEngineLive  SpecEngine with upload_file's steps taken eventually.    *)
(* SpecAuth        the cached credential: get_cached_session, is_expired.   *)
(* SpecSession     the checkpoint alone: create, then mark_* calls.         *)
(***************************************************************************)
EXTENDS Integers, Sequences, FiniteSets, TLC

\* ------------------------------------------------------------------ bounds
MaxFiles == 4          \* rows of the metadata table (candidate filenames 1..MaxFiles)
ChunkSize == 2         \* chunk_size handed to upload_file, in bytes of the model
SampleSize == 1        \* sample_size handed to get_file_identifier, in bytes of the model
MaxFileSize == 4       \* largest file size drawn for one upload_file call
MaxNow == 3300         \* the clock stops advancing here
TickSeconds == 3300    \* seconds the clock advances in one step
MaxToken == 3          \* refreshes are not granted beyond this token generation
MaxDirChanges == 1     \* files added to / removed from the directory between runs
MaxRuns == 2           \* runs of the batch against the directory
MaxFaults == 2         \* adverse events of a batch: rejected or lost requests, failed
                       \* refreshes, failed saves, unreadable files, crashes

\* ------------------------------------------------------- program constants
max_retries == 3
buffer_seconds == 300
expires_in_default == 3600

Files == 1..MaxFiles

\* ------------------------------------------------------------- file system
\* Bytes of the file a filename names: files 1 and 3 have the same size, the
\* same first and last sample and a different middle; the other files are
\* identical to each other and shorter.
FileBytes(f) ==
    CASE f = 1 -> <<1, 0, 1>>
      [] f = 3 -> <<1, 1, 1>>
      [] OTHER -> <<2>>

Min(a, b) == IF a < b THEN a ELSE b

\* dedup.get_file_identifier: the digest is modelled by the exact data fed to
\* the hasher: the size, the first sample, and the last sample of larger files.
\* A faulty variant of get_file_identifier: the whole file is hashed.
get_file_identifier_whole(bytes, sample_size) == <<Len(bytes), bytes, <<>> >>

get_file_identifier(bytes, sample_size) ==
    LET file_size == Len(bytes)
        first == SubSeq(bytes, 1, Min(sample_size, file_size))
        last == IF file_size > sample_size
                THEN SubSeq(bytes, file_size - Min(sample_size, file_size) + 1, file_size)
                ELSE <<>>
    IN  <<file_size, first, last>>

NoHash == <<>>

\* ------------------------------------------------------------------ errors
\* UploadResult.error texts; chunk/total carry the "(chunk i/n)" position.
Err(kind, chunk, total) == [kind |-> kind, chunk |-> chunk, total |-> total]
NoError == Err("", 0, 0)

NoId == -1             \* dataset_id None
NoKey == 0             \* filename has no entry in a dict

\* UploadResult
NoResult == [done |-> FALSE, success |-> FALSE, dataset_id |-> NoId, error |-> NoError]
Success(id) == [done |-> TRUE, success |-> TRUE, dataset_id |-> id, error |-> NoError]
Failure(err) == [done |-> TRUE, success |-> FALSE, dataset_id |-> NoId, error |-> err]

\* ------------------------------------------------------------- checkpoint
\* dedup.UploadSessionState (the fields the coordinator reads and writes).
EmptySession ==
    [ session_id |-> 0,
      created_at |-> 0,
      data_directory |-> "",
      metadata_file |-> "",
      api_url |-> "",
      files_total |-> 0,
      files_completed |-> <<>>,
      files_failed |-> [f \in Files |-> NoError],
      files_skipped |-> [f \in Files |-> 0],
      file_hashes |-> [f \in Files |-> NoHash],
      dataset_ids |-> [f \in Files |-> NoKey] ]

\* UploadSessionState.create: id stands for the uuid drawn, t for now().
create(id, t) ==
    [EmptySession EXCEPT !.session_id = id, !.created_at = t,
                         !.data_directory = "data_dir", !.api_url = "api_url"]

Range(s) == {s[i] : i \in 1..Len(s)}
Keys(d, none) == {f \in DOMAIN d : d[f] # none}

files_pending(s) ==
    s.files_total - (Len(s.files_completed)
                     + Cardinality(Keys(s.files_failed, NoError))
                     + Cardinality(Keys(s.files_skipped, 0)))

is_complete(s) == files_pending(s) = 0

\* A faulty variant of mark_completed: the entry in files_failed is kept.
mark_completed_keep_failed(s, filename, dataset_id) ==
    [s EXCEPT !.files_completed = Append(@, filename),
              !.dataset_ids[filename] = dataset_id]

mark_completed(s, filename, dataset_id) ==
    [s EXCEPT !.files_completed = Append(@, filename),
              !.dataset_ids[filename] = dataset_id,
              !.files_failed[filename] = NoError]

\* A faulty variant of mark_failed: an earlier error text is kept (setdefault).
mark_failed_keep_first(s, filename, error) ==
    IF s.files_failed[filename] # NoError THEN s
    ELSE [s EXCEPT !.files_failed[filename] = error]

mark_failed(s, filename, error) ==
    [s EXCEPT !.files_failed[filename] = error]

mark_skipped(s, filename, first) ==
    [s EXCEPT !.files_skipped[filename] = first]

\* A faulty variant of should_process: skipped files are not looked at.
should_process_completed_only(s, filename) ==
    filename \notin Range(s.files_completed)

should_process(s, filename) ==
    filename \notin Range(s.files_completed) /\ s.files_skipped[filename] = 0

\* json.dump(asdict(self)): the JSON document of a record. A list becomes an
\* array, a dict an object whose members are the <<key, value>> pairs of its
\* entries, None becomes null.
Members(d, none) == {<<f, d[f]>> : f \in Keys(d, none)}
to_json(v) == IF v = NoId THEN [null |-> TRUE, number |-> 0]
              ELSE [null |-> FALSE, number |-> v]

\* A faulty variant of dump: the hash cache is left out of the document.
dump_without_hashes(s) ==
    [ session_id |-> s.session_id,
      created_at |-> s.created_at,
      data_directory |-> s.data_directory,
      metadata_file |-> s.metadata_file,
      api_url |-> s.api_url,
      files_total |-> s.files_total,
      files_completed |-> s.files_completed,
      files_failed |-> Members(s.files_failed, NoError),
      files_skipped |-> Members(s.files_skipped, 0),
      file_hashes |-> {},
      dataset_ids |-> {<<m[1], to_json(m[2])>> : m \in Members(s.dataset_ids, NoKey)} ]

dump(s) ==
    [ session_id |-> s.session_id,
      created_at |-> s.created_at,
      data_directory |-> s.data_directory,
      metadata_file |-> s.metadata_file,
      api_url |-> s.api_url,
      files_total |-> s.files_total,
      files_completed |-> s.files_completed,
      files_failed |-> Members(s.files_failed, NoError),
      files_skipped |-> Members(s.files_skipped, 0),
      file_hashes |-> Members(s.file_hashes, NoHash),
      dataset_ids |-> {<<m[1], to_json(m[2])>> : m \in Members(s.dataset_ids, NoKey)} ]

\* UploadSessionState.load: json.load, then cls(**data). An object becomes a
\* dict again (a filename without a member has no entry), null becomes None.
from_json(j) == IF j.null THEN NoId ELSE j.number
Entries(members, none) ==
    [f \in Files |-> IF \E m \in members : m[1] = f
                     THEN (CHOOSE m \in members : m[1] = f)[2]
                     ELSE none]
load(doc) ==
    [ session_id |-> doc.session_id,
      created_at |-> doc.created_at,
      data_directory |-> doc.data_directory,
      metadata_file |-> doc.metadata_file,
      api_url |-> doc.api_url,
      files_total |-> doc.files_total,
      files_completed |-> doc.files_completed,
      files_failed |-> Entries(doc.files_failed, NoError),
      files_skipped |-> Entries(doc.files_skipped, 0),
      file_hashes |-> Entries(doc.file_hashes, NoHash),
      dataset_ids |-> Entries({<<m[1], from_json(m[2])>> : m \in doc.dataset_ids}, NoKey) ]

\* The checkpoint file of the directory: absent, unparsable, or the text save
\* wrote, held as the record load makes of it.
NoFile == [state |-> "absent", rec |-> EmptySession]
CorruptFile == [state |-> "corrupt", rec |-> EmptySession]
SavedFile(s) == [state |-> "ok", rec |-> load(dump(s))]

\* dedup.find_existing_session: the record, or None for a missing or
\* unparsable file.
NoSession == [some |-> FALSE, rec |-> EmptySession]
Some(s) == [some |-> TRUE, rec |-> s]
find_existing_session(file) ==
    IF file.state = "ok" THEN Some(file.rec) ELSE NoSession

\* ---------------------------------------------------------------- state
VARIABLES
    dir,              \* filenames present (valid, matched to metadata) in the directory
    disk,             \* the checkpoint file .deadtrees-upload-session.json
    dir_changes,      \* directory changes made so far
    runs,             \* runs of the batch started so far
    faults,           \* adverse events so far (counted in the batch only)
    now,              \* time.time()
    token_kind,       \* type of upload_file's token argument: "AuthSession" or "str"
    auth_session,     \* AuthSession: access_token, refresh_token, expires_at
    pc,               \* position of cli.main / do_upload
    session,          \* do_upload's session (UploadSessionState in memory)
    valid_results,    \* do_upload's valid_results: the filenames to transfer, in order
    idx,              \* position of the for loop over valid_results
    upload_results,   \* do_upload's upload_results
    run,              \* how this run began: checkpoint file found, the user's answer,
                      \* the candidate files, the files whose hashing raised
    invoked,          \* filenames upload_file was called for in this run
    notified,         \* filenames whose start-processing request was sent in this
                      \* run, in order
    ended,            \* how the last run ended: "returned", "killed", "AuthError",
                      \* "FileNotFoundError" after the transfer loop was reached;
                      \* "nothing to upload", "dry run", "exit" before it
    interrupted,      \* the file upload_file was working on when the last run was
                      \* killed (name 0: none), and that run's candidate files
    upc,              \* position of upload_file
    file,             \* upload_file's metadata argument: filename, file_path, size
    chunks_total, chunk_index, retry, last_error,
    response,         \* kind of the last response received
    result,           \* the UploadResult upload_file returned
    sent,             \* the last request sent: chunk_index, bearer token, the bytes
                      \* of the file part and the form fields
    chunk_data,       \* the bytes read for the current chunk
    fpos,             \* position of the open file f
    base_form_data,   \* the form fields built once per call: upload_id and metadata
    inflight,         \* requests of this call awaiting their response
    requests,         \* requests this call has sent so far
    forced,           \* forced refreshes (after a 401) during the current chunk
    resend,           \* chunk whose last answer was a 401 followed by a successful
                      \* forced refresh (-1: none)
    acked,            \* chunk indices of this call answered with a status below 400
    refreshes,        \* the refresh() calls of this upload_file call, in order: where
                      \* ("pre": get_token, "forced": after a 401) and the outcome
    uploaded,         \* per filename: uploads the server accepted (final chunk answered ok)
    cache,            \* the credential cache file auth_session_<api_url>.json
    apc,              \* position of prompts.authenticate: "idle", "start", "returned"
    cached,           \* what get_cached_session returned (or raised), and the outcome
                      \* of the refresh() call it made ("none": no call)
    expired,          \* the last is_expired(buffer) call: arguments and value
    call              \* the last mark_* call made on a session on its own: the
                      \* arguments, and the error the file had before mark_failed

envVars == <<dir, disk, dir_changes, runs>>

\* An adverse event is explored only while the budget of the batch lasts.
Fault(adverse) ==
    IF adverse /\ pc # "engine"
    THEN faults < MaxFaults /\ faults' = faults + 1
    ELSE faults' = faults
authVars == <<token_kind, auth_session>>
cacheVars == <<cache, apc, cached, expired>>
batchVars == <<pc, session, valid_results, idx, upload_results, run, invoked, notified,
               ended, interrupted>>
engineVars == <<upc, file, chunks_total, chunk_index, retry, last_error, response,
                result, sent, chunk_data, fpos, base_form_data, inflight, requests,
                forced, resend, acked, refreshes>>
vars == <<envVars, faults, now, authVars, cacheVars, call, batchVars, engineVars, uploaded>>

\* ------------------------------------------------------------ credential
\* A faulty variant of is_expired: strictly later than expires_at - buffer.
is_expired_strict(a, t, buffer) == t > a.expires_at - buffer

\* AuthSession.is_expired
is_expired(a, t, buffer) == t >= a.expires_at - buffer

\* Outcomes of one AuthSession.refresh call: the fields are replaced ("ok"); the
\* request fails, is answered with a status >= 400 or with a body that is no
\* JSON object ("fail"); or the body carries an expires_in that cannot be added
\* to time.time() ("partial").
RefreshOutcomes == {"ok", "fail", "partial"}

\* Does the call raise AuthError?
refresh_raises(outcome) == outcome \in {"fail", "partial"}

\* AuthSession.refresh: the fields are assigned one after the other (lines
\* 53, 54, 58); an exception before line 53 leaves them all, the TypeError of
\* line 58 leaves expires_at only. No refresh is made for "none".
refresh(a, t, outcome) ==
    CASE outcome = "ok" ->
            [access_token |-> a.access_token + 1,
             refresh_token |-> a.refresh_token + 1,
             expires_at |-> t + expires_in_default]
      [] outcome = "partial" ->
            [a EXCEPT !.access_token = @ + 1, !.refresh_token = @ + 1]
      [] OTHER -> a

\* The refresh outcomes explored: a grant only while the generation is below the cap.
Grants(a) == IF a.access_token < MaxToken THEN RefreshOutcomes ELSE {"fail"}

\* A faulty variant of NeedsRefresh: every get_valid_token call refreshes.
NeedsRefresh_always(kind, a, t) == kind = "AuthSession"

\* AuthSession.get_valid_token / upload_file.get_token: refresh first iff the
\* session is expiring; a bare token string is returned as it is.
NeedsRefresh(kind, a, t) == kind = "AuthSession" /\ is_expired(a, t, buffer_seconds)

\* A faulty variant of get_valid_token: the token is read before the refresh.
get_valid_token_before(a, t, outcome) == a.access_token

\* AuthSession.get_valid_token: the access token after the refresh it made
\* (outcome "none": no refresh was due).
get_valid_token(a, t, outcome) == refresh(a, t, outcome).access_token

\* uploaded counts the accepted uploads since the checkpoint file was last
\* removed (by cli.main after a run without failure, or by the user).
NoUploads == [f \in Files |-> 0]

NoInterrupt == [name |-> 0, candidates |-> <<>>]

NoCall == [op |-> "", filename |-> 0, dataset_id |-> NoId, error |-> NoError,
           reason |-> 0, before |-> NoError]

NoFileArg == [name |-> 0, path |-> FALSE, exists |-> FALSE, size |-> 0, bytes |-> <<>>]
NoForm == [upload_id |-> 0, metadata |-> 0]
NoSent == [chunk_index |-> -1, token |-> -1, data |-> <<>>,
           form |-> [upload_id |-> 0, metadata |-> 0, chunk_index |-> -1, chunks_total |-> 0]]

EngineIdle ==
    /\ upc = "idle" /\ file = NoFileArg
    /\ chunks_total = 0 /\ chunk_index = 0 /\ retry = 0
    /\ last_error = NoError /\ response = "" /\ result = NoResult
    /\ sent = NoSent /\ inflight = 0 /\ forced = 0 /\ resend = -1 /\ acked = {}
    /\ chunk_data = <<>> /\ fpos = 0 /\ base_form_data = NoForm
    /\ refreshes = <<>> /\ requests = 0


\* ------------------------------------------------------- upload.upload_file
\* Kinds of answer to one chunk request: a response below 400, a 401, another
\* status >= 400, httpx.TimeoutException, httpx.ConnectError, and any other
\* exception of the request (caught only by the outermost handler).
ResponseKinds == {"ok", "e401", "err", "timeout", "connect", "exc"}

\* A faulty variant of chunks_of: the division rounds down.
chunks_of_floor(file_size, chunk_size) == file_size \div chunk_size

chunks_of(file_size, chunk_size) == (file_size + chunk_size - 1) \div chunk_size

\* f.read(n) with the file position at pos: the next n bytes, fewer at the end.
read(bytes, pos, n) == SubSeq(bytes, pos + 1, Min(pos + n, Len(bytes)))

\* str(uuid.uuid4()): a value no other upload_file call of the batch draws.
uuid4 == runs * MaxFiles + idx

\* A faulty variant of form_data: a new upload_id for every chunk.
form_data_new_id(base, ci, ct) ==
    [upload_id |-> base.upload_id + ci, metadata |-> base.metadata,
     chunk_index |-> ci, chunks_total |-> ct]

\* Lines 123-127: the form fields of one chunk request.
form_data(base, ci, ct) ==
    [upload_id |-> base.upload_id, metadata |-> base.metadata,
     chunk_index |-> ci, chunks_total |-> ct]

\* A faulty variant of on_response: the AuthError of the forced refresh is
\* swallowed and the attempt is simply repeated.
on_response_swallow(kind, tkind, refreshed) ==
    CASE kind = "ok" -> "break"
      [] kind = "e401" -> IF tkind = "AuthSession" THEN "continue" ELSE "return"
      [] kind \in {"err", "timeout", "connect"} -> "continue"
      [] OTHER -> "raise"

\* What the retry loop's body does with an answer: leave the loop ("break"),
\* go to the next attempt ("continue"), return the authentication failure
\* ("return"), or let the exception reach the outer handler ("raise").
on_response(kind, tkind, refreshed) ==
    CASE kind = "ok" -> "break"
      [] kind = "e401" ->
            IF tkind = "AuthSession" /\ refreshed = "ok" THEN "continue" ELSE "return"
      [] kind \in {"err", "timeout", "connect"} -> "continue"
      [] OTHER -> "raise"

\* last_error after an answer to chunk ci (0-based) of ct.
next_last_error(kind, le, ci, ct) ==
    CASE kind = "ok" -> NoError
      [] kind = "err" -> Err("Upload failed (chunk)", ci + 1, ct)
      [] kind = "timeout" -> Err("Timeout on chunk", ci + 1, ct)
      [] kind = "connect" -> Err("Connection error on chunk", ci + 1, ct)
      [] OTHER -> le

\* A faulty variant of more_attempts: while True, the attempts are not counted.
more_attempts_unbounded(r) == TRUE

\* A faulty variant of more_attempts: range(max_retries + 1), one attempt too many.
more_attempts_extra(r) == r + 1 < max_retries + 1

\* for retry in range(max_retries): is there another attempt after this one?
more_attempts(r) == r + 1 < max_retries

\* A faulty variant of next_chunk_index: range(0, chunks_total, 2), every
\* second chunk is passed over.
next_chunk_index_step2(ci) == ci + 2

\* for chunk_index in range(chunks_total): the index after ci.
next_chunk_index(ci) == ci + 1

\* response.json() of the response the loop ended with, then .get("id"): an
\* accepted final chunk carries the new dataset id; a 401 body carries none,
\* or is no JSON object at all.
Bodies(kind) == IF kind = "ok" THEN {"id"} ELSE {"noid", "nojson"}

\* The id the server gives an accepted upload of filename f.
new_dataset_id(f, n) == 10 * f + n

\* A faulty variant of after_chunk_loop: an empty transfer counts as done.
after_chunk_loop_success == Success(NoId)

\* Lines 209-214: the return after a chunk loop that ended without returning,
\* which is the case for chunks_total = 0 only.
after_chunk_loop == Failure(Err("Upload completed but no response received", 0, 0))

\* Lines 61-119: the early returns, chunks_total, and the entry of the loops.
UploadFileEntry ==
    /\ upc = "call"
    /\ IF ~file.path
       THEN /\ result' = Failure(Err("No file path set", 0, 0))
            /\ upc' = "done"
            /\ UNCHANGED chunks_total
       ELSE IF ~file.exists
       THEN /\ result' = Failure(Err("File does not exist", 0, 0))
            /\ upc' = "done"
            /\ UNCHANGED chunks_total
       ELSE /\ chunks_total' = chunks_of(file.size, ChunkSize)
            /\ IF chunks_total' = 0
               THEN /\ result' = after_chunk_loop
                    /\ upc' = "done"
               ELSE /\ result' = NoResult
                    /\ upc' = "attempt"
    /\ chunk_index' = 0 /\ retry' = 0 /\ last_error' = NoError
    /\ IF upc' = "attempt"
       THEN /\ base_form_data' = [upload_id |-> uuid4, metadata |-> file.name]
            /\ chunk_data' = read(file.bytes, 0, ChunkSize)
            /\ fpos' = Len(chunk_data')
       ELSE UNCHANGED <<base_form_data, chunk_data, fpos>>
    /\ UNCHANGED <<file, response, sent, inflight, requests, forced, resend, acked,
                   refreshes>>
    /\ UNCHANGED <<envVars, faults, now, cacheVars, call, authVars, batchVars, uploaded>>

\* Lines 137-147: get_token() (refreshing an expiring AuthSession first), then
\* the POST of the current chunk. An AuthError of the refresh is caught by the
\* outermost handler.
SendChunk ==
    /\ upc = "attempt"
    /\ \E o \in (IF NeedsRefresh(token_kind, auth_session, now)
                 THEN Grants(auth_session) ELSE {"none"}) :
        /\ Fault(refresh_raises(o))
        /\ auth_session' = refresh(auth_session, now, o)
        /\ refreshes' = IF o = "none" THEN refreshes
                        ELSE Append(refreshes, [at |-> "pre", outcome |-> o])
        /\ IF refresh_raises(o)
           THEN /\ result' = Failure(Err("Upload error: AuthError", 0, 0))
                /\ upc' = "done"
                /\ UNCHANGED <<sent, inflight, requests>>
           ELSE /\ sent' = [chunk_index |-> chunk_index,
                            token |-> get_valid_token(auth_session, now, o),
                            data |-> chunk_data,
                            form |-> form_data(base_form_data, chunk_index, chunks_total)]
                /\ inflight' = inflight + 1
                /\ requests' = requests + 1
                /\ upc' = "wait"
                /\ UNCHANGED result
    /\ UNCHANGED <<file, chunks_total, chunk_index, retry, last_error, response, forced,
                   resend, acked, chunk_data, fpos, base_form_data>>
    /\ UNCHANGED <<envVars, now, cacheVars, call, token_kind, batchVars, uploaded>>

\* Lines 185-207, reached when the retry loop ends (by break or by running out
\* of attempts) with last_error le and the last response of kind k.
AfterRetryLoop(le, k) ==
    IF le # NoError
    THEN /\ result' = Failure(le)
         /\ upc' = "done"
         /\ UNCHANGED <<chunk_index, retry>>
         /\ last_error' = le
    ELSE IF chunk_index = chunks_total - 1
    THEN /\ \E body \in Bodies(k) :
              result' = CASE body = "id" -> Success(new_dataset_id(file.name, uploaded'[file.name]))
                          [] body = "noid" -> Success(NoId)
                          [] OTHER -> Failure(Err("Upload error", 0, 0))
         /\ upc' = "done"
         /\ UNCHANGED <<chunk_index, retry>>
         /\ last_error' = le
    ELSE /\ chunk_index' = next_chunk_index(chunk_index)
         /\ retry' = 0
         /\ last_error' = NoError
         /\ upc' = "attempt"
         /\ UNCHANGED result

\* Lines 149-183: the answer to the outstanding request arrives.
Respond(kind, o) ==
    /\ upc = "wait"
    /\ o \in (IF kind = "e401" /\ token_kind = "AuthSession"
              THEN Grants(auth_session) ELSE {"none"})
    /\ Fault(kind # "ok")
    /\ response' = kind
    /\ inflight' = inflight - 1
    /\ uploaded' = IF kind = "ok" /\ chunk_index = chunks_total - 1 /\ file.name \in Files
                   THEN [uploaded EXCEPT ![file.name] = Min(@ + 1, 2)]
                   ELSE uploaded
    /\ auth_session' = refresh(auth_session, now, o)
    /\ LET control == on_response(kind, token_kind, o)
           le == next_last_error(kind, last_error, chunk_index, chunks_total)
       IN  CASE control = "raise" ->
                  /\ result' = Failure(Err("Upload error", 0, 0))
                  /\ upc' = "done"
                  /\ UNCHANGED <<chunk_index, retry, last_error>>
             [] control = "return" ->
                  /\ result' = Failure(Err("Authentication failed - please re-login", 0, 0))
                  /\ upc' = "done"
                  /\ UNCHANGED <<chunk_index, retry, last_error>>
             [] control = "break" ->
                  AfterRetryLoop(le, kind)
             [] OTHER ->
                  IF more_attempts(retry)
                  THEN /\ retry' = retry + 1
                       /\ last_error' = le
                       /\ upc' = "attempt"
                       /\ UNCHANGED <<chunk_index, result>>
                  ELSE AfterRetryLoop(le, kind)
    /\ resend' = IF kind = "e401" /\ o = "ok" THEN chunk_index ELSE -1
    /\ acked' = IF kind = "ok" THEN acked \cup {chunk_index} ELSE acked
    /\ refreshes' = IF o = "none" THEN refreshes
                    ELSE Append(refreshes, [at |-> "forced", outcome |-> o])
    /\ forced' = IF chunk_index' # chunk_index THEN 0
                 ELSE IF kind = "e401" /\ o = "ok" THEN forced + 1 ELSE forced
    /\ chunk_data' = IF chunk_index' # chunk_index
                     THEN read(file.bytes, fpos, ChunkSize) ELSE chunk_data
    /\ fpos' = IF chunk_index' # chunk_index THEN fpos + Len(chunk_data') ELSE fpos
    /\ UNCHANGED <<file, chunks_total, sent, base_form_data, requests>>
    /\ UNCHANGED <<envVars, now, cacheVars, call, token_kind, batchVars>>

\* Time passes.
Tick ==
    /\ now < MaxNow
    /\ now' = now + TickSeconds
    /\ UNCHANGED <<envVars, faults, authVars, cacheVars, call, batchVars, engineVars, uploaded>>

\* One upload_file call: the file is missing, has no path, or has any size up
\* to MaxFileSize; the token is a bare string or an AuthSession that is fresh
\* or already expiring.
FileArgs ==
    {[name |-> 1, path |-> FALSE, exists |-> FALSE, size |-> 0, bytes |-> <<>>],
     [name |-> 1, path |-> TRUE, exists |-> FALSE, size |-> 0, bytes |-> <<>>]}
    \cup {[name |-> 1, path |-> TRUE, exists |-> TRUE, size |-> n,
           bytes |-> [i \in 1..n |-> i]] : n \in 0..MaxFileSize}

NewAuthSession(t) ==
    [access_token |-> 0, refresh_token |-> 0, expires_at |-> t + expires_in_default]

\* ------------------------------------------------- the credential cache
NoAuthSession == [access_token |-> -1, refresh_token |-> -1, expires_at |-> 0]

\* The cache file: absent, unparsable, or the JSON payload save_auth_session wrote.
NoCache == [state |-> "absent", payload |-> NoAuthSession]
CorruptCache == [state |-> "corrupt", payload |-> NoAuthSession]

\* auth.save_auth_session: the payload written (the fields of the model).
save_auth_session(a) ==
    [state |-> "ok",
     payload |-> [access_token |-> a.access_token,
                  refresh_token |-> a.refresh_token,
                  expires_at |-> a.expires_at]]

\* auth.load_auth_session: None for a missing or unparsable file.
load_auth_session(c) ==
    IF c.state = "ok"
    THEN [some |-> TRUE,
          session |-> [access_token |-> c.payload.access_token,
                       refresh_token |-> c.payload.refresh_token,
                       expires_at |-> c.payload.expires_at]]
    ELSE [some |-> FALSE, session |-> NoAuthSession]

NoCached == [kind |-> "", session |-> NoAuthSession, refresh |-> "none"]
NoCheck == [buffer |-> 0, now |-> 0, expires_at |-> 0, value |-> FALSE]

CacheIdle ==
    /\ cache = NoCache /\ apc = "idle" /\ cached = NoCached /\ expired = NoCheck

InitEngine ==
    /\ dir = Files /\ disk = NoFile /\ dir_changes = 0 /\ runs = 0 /\ faults = 0
    /\ now = 0
    /\ token_kind \in {"AuthSession", "str"}
    /\ auth_session \in {NewAuthSession(0), [NewAuthSession(0) EXCEPT !.expires_at = 0]}
    /\ pc = "engine" /\ session = NoSession /\ valid_results = <<>> /\ idx = 1
    /\ upload_results = <<>>
    /\ run = [file |-> NoFile, choice |-> "none", candidates |-> <<>>, unhashed |-> {}]
    /\ invoked = {} /\ notified = <<>> /\ ended = "" /\ interrupted = NoInterrupt
    /\ upc = "call" /\ file \in FileArgs
    /\ chunks_total = 0 /\ chunk_index = 0 /\ retry = 0
    /\ last_error = NoError /\ response = "" /\ result = NoResult
    /\ sent = NoSent /\ inflight = 0 /\ forced = 0 /\ resend = -1 /\ acked = {}
    /\ chunk_data = <<>> /\ fpos = 0 /\ base_form_data = NoForm
    /\ refreshes = <<>> /\ requests = 0
    /\ uploaded = NoUploads
    /\ CacheIdle
    /\ call = NoCall

NextEngine ==
    \/ UploadFileEntry
    \/ SendChunk
    \/ \E kind \in ResponseKinds, o \in RefreshOutcomes \cup {"none"} : Respond(kind, o)
    \/ Tick

SpecEngine == InitEngine /\ [][NextEngine]_vars

\* upload_file runs on: each statement is reached once the one before it is
\* done, and client.post returns or raises (the client's timeout is 300 s).
SpecEngineLive ==
    /\ SpecEngine
    /\ WF_vars(UploadFileEntry)
    /\ WF_vars(SendChunk)
    /\ WF_vars(\E kind \in ResponseKinds, o \in RefreshOutcomes \cup {"none"} : Respond(kind, o))

\* --------------------------------------------------- workflow.do_upload
\* The matched, valid files of the directory in the order of the metadata rows.
candidates(d) == SelectSeq([i \in 1..MaxFiles |-> i], LAMBDA f : f \in d)

\* A faulty variant of calculate_hashes: cached digests are not looked at,
\* every candidate is hashed again.
calculate_hashes_again(s, valid, unreadable) ==
    [s EXCEPT !.file_hashes =
        [f \in Files |->
            IF f \in Range(valid)
            THEN IF f \in unreadable THEN NoHash
                 ELSE get_file_identifier(FileBytes(f), SampleSize)
            ELSE s.file_hashes[f]]]

\* A faulty variant of calculate_hashes: a file that cannot be read gets the
\* digest of an empty file.
calculate_hashes_default(s, valid, unreadable) ==
    [s EXCEPT !.file_hashes =
        [f \in Files |->
            IF f \in Range(valid) /\ s.file_hashes[f] = NoHash
            THEN IF f \in unreadable THEN get_file_identifier(<<>>, SampleSize)
                 ELSE get_file_identifier(FileBytes(f), SampleSize)
            ELSE s.file_hashes[f]]]

\* calculate_hashes_with_progress: a digest for every candidate without a
\* cached one; a file that cannot be read gets none.
calculate_hashes(s, valid, unreadable) ==
    [s EXCEPT !.file_hashes =
        [f \in Files |->
            IF f \in Range(valid) /\ s.file_hashes[f] = NoHash /\ f \notin unreadable
            THEN get_file_identifier(FileBytes(f), SampleSize)
            ELSE s.file_hashes[f]]]

\* Lines 139-142: drop the files the checkpoint lists as completed.
drop_completed(s, valid) ==
    SelectSeq(valid, LAMBDA f : f \notin Range(s.files_completed))

\* Lines 145-155: the loop over valid_results from position i on; seen is
\* seen_hashes as a set of <<hash, filename>>. Yields the session and the
\* duplicates found.
RECURSIVE mark_duplicates(_, _, _, _, _)
mark_duplicates(s, valid, i, seen, duplicates) ==
    IF i > Len(valid) THEN [session |-> s, duplicates |-> duplicates]
    ELSE LET filename == valid[i]
             file_hash == s.file_hashes[filename]
             firsts == {p \in seen : p[1] = file_hash}
         IN  IF file_hash = NoHash
             THEN mark_duplicates(s, valid, i + 1, seen, duplicates)
             ELSE IF firsts # {}
             THEN LET first == (CHOOSE p \in firsts : TRUE)[2]
                  IN  mark_duplicates(mark_skipped(s, filename, first), valid, i + 1, seen,
                                      Append(duplicates, <<filename, first>>))
             ELSE mark_duplicates(s, valid, i + 1, seen \cup {<<file_hash, filename>>},
                                  duplicates)

\* Lines 158-159: only when this run found duplicates, drop every file the
\* session lists as skipped.
drop_skipped(s, valid, duplicates) ==
    IF duplicates # <<>>
    THEN SelectSeq(valid, LAMBDA f : s.files_skipped[f] = 0)
    ELSE valid

\* Lines 117-159 of do_upload for the session handed in (None: a new one).
prepare(upload_session, d, unreadable) ==
    LET all == candidates(d)
        s0 == IF upload_session.some THEN upload_session.rec ELSE create(runs + 1, now)
        s1 == calculate_hashes([s0 EXCEPT !.files_total = Len(all)], all, unreadable)
        v1 == drop_completed(s1, all)
        m == mark_duplicates(s1, v1, 1, {}, <<>>)
    IN  [session |-> m.session,
         candidates |-> all,
         unhashed |-> {f \in Range(all) \cap unreadable : s0.file_hashes[f] = NoHash},
         duplicates |-> m.duplicates,
         valid_results |-> drop_skipped(m.session, v1, m.duplicates)]

\* prompts.check_existing_session: is resuming offered for this checkpoint file?
resume_offered(f) ==
    LET existing == find_existing_session(f)
    IN  existing.some /\ ~is_complete(existing.rec)

NoRun == [file |-> NoFile, choice |-> "none", candidates |-> <<>>, unhashed |-> {}]

BatchIdle ==
    /\ pc = "idle" /\ session = NoSession /\ valid_results = <<>> /\ idx = 1
    /\ upload_results = <<>> /\ run = NoRun /\ invoked = {} /\ notified = <<>>
    /\ ended = ""
    /\ interrupted = NoInterrupt

ToIdle ==
    /\ pc' = "idle" /\ session' = NoSession /\ valid_results' = <<>> /\ idx' = 1
    /\ upload_results' = <<>> /\ run' = NoRun /\ invoked' = {} /\ notified' = <<>>
    /\ upc' = "idle" /\ file' = NoFileArg
    /\ chunks_total' = 0 /\ chunk_index' = 0 /\ retry' = 0
    /\ last_error' = NoError /\ response' = "" /\ result' = NoResult
    /\ sent' = NoSent /\ inflight' = 0 /\ forced' = 0 /\ resend' = -1 /\ acked' = {}
    /\ chunk_data' = <<>> /\ fpos' = 0 /\ base_form_data' = NoForm
    /\ refreshes' = <<>> /\ requests' = 0

\* cli.main up to the first transfer: check_existing_session (the user resumes,
\* starts fresh, or leaves), then do_upload's preparation, the dry-run return
\* and the confirmation. go: "upload", "dry_run" or "decline".
StartRun(choice, unreadable, go) ==
    /\ pc = "idle"
    /\ runs < MaxRuns
    /\ runs' = runs + 1
    /\ Fault(unreadable # {})
    /\ choice \in (IF resume_offered(disk) THEN {"resume", "fresh", "exit"} ELSE {"none"})
    /\ LET upload_session == IF choice = "resume" THEN find_existing_session(disk)
                             ELSE NoSession
           p == prepare(upload_session, dir, unreadable)
           proceeds == /\ choice # "exit"
                       /\ p.valid_results # <<>>
                       /\ go = "upload"
       IN  /\ disk' = IF choice = "fresh" THEN NoFile ELSE disk
           /\ IF proceeds
              THEN /\ pc' = "loop"
                   /\ session' = Some(p.session)
                   /\ valid_results' = p.valid_results
                   /\ run' = [file |-> disk, choice |-> choice, candidates |-> p.candidates,
                               unhashed |-> p.unhashed]
                   /\ ended' = ""
                   /\ UNCHANGED <<idx, upload_results, invoked, notified, interrupted>>
              ELSE /\ ended' = CASE choice = "exit" -> "exit"
                                  [] p.valid_results = <<>> -> "nothing to upload"
                                  [] go = "dry_run" -> "dry run"
                                  [] OTHER -> "exit"
                   /\ UNCHANGED <<pc, session, valid_results, idx, upload_results, run,
                                  invoked, notified, interrupted>>
           /\ uploaded' = IF choice = "fresh" THEN NoUploads ELSE uploaded
    /\ UNCHANGED <<dir, dir_changes, now, cacheVars, call, authVars, engineVars>>

\* Lines 201-218: the size of the next file of valid_results is taken with
\* file_path.stat(), outside any try block, and the file is handed to
\* upload_file. The FileNotFoundError of a file that is gone ends the run.
CallUploadFile ==
    /\ pc = "loop"
    /\ idx <= Len(valid_results)
    /\ LET filename == valid_results[idx]
       IN  IF filename \in dir
           THEN /\ file' = [name |-> filename, path |-> TRUE, exists |-> TRUE,
                            size |-> Len(FileBytes(filename)),
                            bytes |-> FileBytes(filename)]
                /\ invoked' = invoked \cup {filename}
                /\ pc' = "upload"
                /\ upc' = "call"
                /\ chunks_total' = 0 /\ chunk_index' = 0 /\ retry' = 0
                /\ last_error' = NoError /\ response' = "" /\ result' = NoResult
                /\ sent' = NoSent /\ inflight' = 0 /\ forced' = 0 /\ resend' = -1
                /\ chunk_data' = <<>> /\ fpos' = 0 /\ base_form_data' = NoForm
                /\ acked' = {} /\ refreshes' = <<>> /\ requests' = 0
                /\ UNCHANGED <<session, valid_results, idx, upload_results, run, notified,
                               ended, interrupted>>
           ELSE /\ ToIdle
                /\ ended' = "FileNotFoundError"
                /\ interrupted' = NoInterrupt
    /\ UNCHANGED <<envVars, faults, now, cacheVars, call, authVars, uploaded>>

\* UploadSessionState.save as called at line 232: the file is rewritten, or
\* the write fails before the file is opened, or fails after it was truncated;
\* the exception is swallowed.
SaveOutcomes == {"ok", "fail", "truncated"}
save(s, f, outcome) ==
    CASE outcome = "ok" -> SavedFile(s)
      [] outcome = "truncated" -> CorruptFile
      [] OTHER -> f

\* Lines 222-227: the outcome is recorded in the session.
record_outcome(s, filename, r) ==
    IF r.success THEN mark_completed(s, filename, r.dataset_id)
    ELSE mark_failed(s, filename, r.error)

\* Lines 220-234: upload_file has returned; the result is appended, the session
\* updated and saved.
RecordOutcome(outcome) ==
    /\ pc = "upload" /\ upc = "done"
    /\ Fault(outcome # "ok")
    /\ upload_results' = Append(upload_results, result)
    /\ session' = Some(record_outcome(session.rec, file.name, result))
    /\ disk' = save(session'.rec, disk, outcome)
    /\ pc' = IF result.success THEN "trigger" ELSE "loop"
    /\ idx' = IF result.success THEN idx ELSE idx + 1
    /\ UNCHANGED <<valid_results, run, invoked, notified, ended, interrupted>>
    /\ UNCHANGED <<dir, dir_changes, runs, now, cacheVars, call, authVars, engineVars, uploaded>>

\* Lines 243-259 and process.trigger_processing: get_valid_token() is called
\* outside its try block, so an AuthError of the refresh ends the run before
\* the PUT is sent; any answer of the PUT (ok) only changes the message printed.
TriggerProcessing(o, ok) ==
    /\ pc = "trigger"
    /\ o \in (IF NeedsRefresh(token_kind, auth_session, now)
              THEN Grants(auth_session) ELSE {"none"})
    /\ Fault(refresh_raises(o) \/ ~ok)
    /\ auth_session' = refresh(auth_session, now, o)
    /\ IF refresh_raises(o)
       THEN /\ ToIdle
            /\ ended' = "AuthError"
            /\ interrupted' = NoInterrupt
       ELSE /\ pc' = "loop"
            /\ idx' = idx + 1
            /\ notified' = Append(notified, valid_results[idx])
            /\ UNCHANGED <<session, valid_results, upload_results, run, invoked, ended,
                           interrupted>>
            /\ UNCHANGED engineVars
    /\ UNCHANGED <<envVars, now, cacheVars, call, token_kind, uploaded>>

\* do_upload returns upload_results; cli.main lines 167-169 remove the
\* checkpoint file when every result is a success.
FinishRun ==
    /\ pc = "loop"
    /\ idx > Len(valid_results)
    /\ LET all_ok == /\ upload_results # <<>>
                     /\ \A i \in 1..Len(upload_results) : upload_results[i].success
       IN  /\ disk' = IF all_ok THEN NoFile ELSE disk
           /\ uploaded' = IF all_ok THEN NoUploads ELSE uploaded
    /\ ToIdle
    /\ ended' = "returned"
    /\ interrupted' = NoInterrupt
    /\ UNCHANGED <<dir, dir_changes, runs, faults, now, cacheVars, call, authVars>>

\* A faulty variant of Crash: an interrupt handler records the file in
\* transfer as failed and saves the checkpoint before the process ends.
Crash_recording_failure ==
    /\ pc \in {"loop", "upload", "trigger"}
    /\ Fault(TRUE)
    /\ disk' = IF pc = "upload" /\ upc # "done"
               THEN SavedFile(mark_failed(session.rec, file.name, Err("Interrupted", 0, 0)))
               ELSE disk
    /\ ToIdle
    /\ ended' = "killed"
    /\ interrupted' = IF pc = "upload" /\ upc # "done"
                      THEN [name |-> file.name, candidates |-> run.candidates]
                      ELSE NoInterrupt
    /\ UNCHANGED <<dir, dir_changes, runs, now, cacheVars, call, authVars, uploaded>>

\* The process is killed or interrupted: everything in memory is lost.
Crash ==
    /\ pc \in {"loop", "upload", "trigger"}
    /\ Fault(TRUE)
    /\ ToIdle
    /\ ended' = "killed"
    /\ interrupted' = IF pc = "upload" /\ upc # "done"
                      THEN [name |-> file.name, candidates |-> run.candidates]
                      ELSE NoInterrupt
    /\ UNCHANGED <<envVars, now, cacheVars, call, authVars, uploaded>>

\* The process is killed while UploadSessionState.save is writing: open(path,
\* 'w') has truncated the file and json.dump has written none or a part of it.
CrashInSave ==
    /\ pc = "upload" /\ upc = "done"
    /\ Fault(TRUE)
    /\ disk' = CorruptFile
    /\ ToIdle
    /\ ended' = "killed"
    /\ interrupted' = NoInterrupt
    /\ UNCHANGED <<dir, dir_changes, runs, now, cacheVars, call, authVars, uploaded>>

\* A file still to be transferred is deleted or moved away while the run is
\* between two files.
FileVanishes(f) ==
    /\ pc = "loop"
    /\ dir_changes < MaxDirChanges
    /\ \E i \in idx..Len(valid_results) : valid_results[i] = f
    /\ f \in dir
    /\ Fault(TRUE)
    /\ dir' = dir \ {f}
    /\ dir_changes' = dir_changes + 1
    /\ UNCHANGED <<disk, runs, now, cacheVars, call, authVars, batchVars, engineVars, uploaded>>

\* Between runs a file appears in or disappears from the directory.
DirChange(f) ==
    /\ pc = "idle"
    /\ dir_changes < MaxDirChanges
    /\ dir' = IF f \in dir THEN dir \ {f} ELSE dir \cup {f}
    /\ dir_changes' = dir_changes + 1
    /\ UNCHANGED <<disk, runs, faults, now, cacheVars, call, authVars, batchVars, engineVars, uploaded>>

Init ==
    /\ dir \in {Files, Files \ {1}, {2, 3}}
    /\ disk = NoFile /\ dir_changes = 0 /\ runs = 0 /\ faults = 0
    /\ now = 0
    /\ token_kind = "AuthSession"
    /\ auth_session = NewAuthSession(0)
    /\ BatchIdle
    /\ EngineIdle
    /\ uploaded = NoUploads
    /\ CacheIdle
    /\ call = NoCall

Next ==
    \/ \E choice \in {"none", "resume", "fresh", "exit"}, 
          unreadable \in {{}} \cup {{f} : f \in Files},
          go \in {"upload", "dry_run", "decline"} : StartRun(choice, unreadable, go)
    \/ CallUploadFile
    \/ UploadFileEntry
    \/ SendChunk
    \/ \E kind \in ResponseKinds, o \in RefreshOutcomes \cup {"none"} : Respond(kind, o)
    \/ \E outcome \in SaveOutcomes : RecordOutcome(outcome)
    \/ \E o \in RefreshOutcomes \cup {"none"}, ok \in BOOLEAN : TriggerProcessing(o, ok)
    \/ FinishRun
    \/ Crash
    \/ CrashInSave
    \/ \E f \in Files : DirChange(f)
    \/ \E f \in Files : FileVanishes(f)
    \/ Tick

Spec == Init /\ [][Next]_vars

\* ------------------------------------------------ auth.get_cached_session
\* Outcomes of the write of the cache file: written, or OSError.
CacheWriteOutcomes == {"ok", "fail"}

\* get_cached_session(api_url), refresh_if_expired left at True: o is the
\* outcome of the refresh() call, w of the cache write ("none": not made).
GetCachedSession(o, w) ==
    /\ apc = "start"
    /\ LET loaded == load_auth_session(cache)
           expiring == loaded.some /\ is_expired(loaded.session, now, buffer_seconds)
           refreshed == refresh(loaded.session, now, o)
       IN  /\ o \in (IF expiring THEN Grants(loaded.session) ELSE {"none"})
           /\ w \in (IF expiring /\ ~refresh_raises(o) THEN CacheWriteOutcomes ELSE {"none"})
           /\ cache' = IF w = "ok" THEN save_auth_session(refreshed) ELSE cache
           /\ cached' =
                CASE ~loaded.some ->
                        [kind |-> "None", session |-> NoAuthSession, refresh |-> "none"]
                  [] refresh_raises(o) ->
                        [kind |-> "None", session |-> NoAuthSession, refresh |-> o]
                  [] w = "fail" ->
                        [kind |-> "OSError", session |-> NoAuthSession, refresh |-> o]
                  [] OTHER ->
                        [kind |-> "AuthSession", session |-> refreshed, refresh |-> o]
    /\ apc' = "returned"
    /\ UNCHANGED expired
    /\ UNCHANGED <<envVars, faults, now, authVars, batchVars, engineVars, uploaded, call>>

\* The buffers is_expired is called with: the default and a shorter one.
short_buffer == 100
Buffers == {short_buffer, buffer_seconds}

\* AuthSession.is_expired(buffer_seconds) called on the cached credential.
CheckExpired(buffer) ==
    /\ apc \in {"start", "returned"}
    /\ load_auth_session(cache).some
    /\ LET a == load_auth_session(cache).session
       IN  expired' = [buffer |-> buffer, now |-> now, expires_at |-> a.expires_at,
                       value |-> is_expired(a, now, buffer)]
    /\ UNCHANGED <<cache, apc, cached>>
    /\ UNCHANGED <<envVars, faults, now, authVars, batchVars, engineVars, uploaded, call>>

\* The program is started again.
StartAgain ==
    /\ apc = "returned"
    /\ apc' = "start"
    /\ cached' = NoCached
    /\ UNCHANGED <<cache, expired>>
    /\ UNCHANGED <<envVars, faults, now, authVars, batchVars, engineVars, uploaded, call>>

\* Expiry times of the cached credential at the first start (the clock is at 0).
ExpiresAt == {-10, 0, 100, 200, 300, 301, 3600}

InitAuth ==
    /\ dir = Files /\ disk = NoFile /\ dir_changes = 0 /\ runs = 0 /\ faults = 0
    /\ now = 0
    /\ token_kind = "AuthSession"
    /\ auth_session = NewAuthSession(0)
    /\ BatchIdle
    /\ EngineIdle
    /\ uploaded = NoUploads
    /\ cache \in {NoCache, CorruptCache}
                \cup {save_auth_session([NewAuthSession(0) EXCEPT !.expires_at = e]) :
                        e \in ExpiresAt}
    /\ apc = "start" /\ cached = NoCached /\ expired = NoCheck
    /\ call = NoCall

NextAuth ==
    \/ \E o \in RefreshOutcomes \cup {"none"}, w \in CacheWriteOutcomes \cup {"none"} :
            GetCachedSession(o, w)
    \/ \E buffer \in Buffers : CheckExpired(buffer)
    \/ StartAgain
    \/ Tick

SpecAuth == InitAuth /\ [][NextAuth]_vars

\* ------------------------------------------- dedup.UploadSessionState alone
\* The checkpoint as a data type: create, then mark_completed, mark_failed and
\* mark_skipped called in any order with any arguments.
MaxCompleted == 3      \* mark_completed is not called on a longer files_completed
Names == {1, 2}
DatasetIds == {100, 200}
Errors == {Err("Connection error on chunk", 1, 2), Err("Upload error", 0, 0)}
Reasons == {1}

MarkCompleted(f, id) ==
    /\ session.some
    /\ Len(session.rec.files_completed) < MaxCompleted
    /\ session' = Some(mark_completed(session.rec, f, id))
    /\ call' = [NoCall EXCEPT !.op = "mark_completed", !.filename = f, !.dataset_id = id]
    /\ UNCHANGED <<pc, valid_results, idx, upload_results, run, invoked, notified, ended,
                   interrupted>>
    /\ UNCHANGED <<envVars, faults, now, authVars, cacheVars, engineVars, uploaded>>

MarkFailed(f, e) ==
    /\ session.some
    /\ session' = Some(mark_failed(session.rec, f, e))
    /\ call' = [NoCall EXCEPT !.op = "mark_failed", !.filename = f, !.error = e,
                              !.before = session.rec.files_failed[f]]
    /\ UNCHANGED <<pc, valid_results, idx, upload_results, run, invoked, notified, ended,
                   interrupted>>
    /\ UNCHANGED <<envVars, faults, now, authVars, cacheVars, engineVars, uploaded>>

MarkSkipped(f, reason) ==
    /\ session.some
    /\ session' = Some(mark_skipped(session.rec, f, reason))
    /\ call' = [NoCall EXCEPT !.op = "mark_skipped", !.filename = f, !.reason = reason]
    /\ UNCHANGED <<pc, valid_results, idx, upload_results, run, invoked, notified, ended,
                   interrupted>>
    /\ UNCHANGED <<envVars, faults, now, authVars, cacheVars, engineVars, uploaded>>

InitSession ==
    /\ dir = Files /\ disk = NoFile /\ dir_changes = 0 /\ runs = 0 /\ faults = 0
    /\ now = 0
    /\ token_kind = "AuthSession"
    /\ auth_session = NewAuthSession(0)
    /\ pc = "idle" /\ session = Some(create(1, 0)) /\ valid_results = <<>> /\ idx = 1
    /\ upload_results = <<>> /\ run = NoRun /\ invoked = {} /\ notified = <<>>
    /\ ended = ""
    /\ interrupted = NoInterrupt
    /\ EngineIdle
    /\ uploaded = NoUploads
    /\ CacheIdle
    /\ call = NoCall

NextSession ==
    \/ \E f \in Names, id \in DatasetIds : MarkCompleted(f, id)
    \/ \E f \in Names, e \in Errors : MarkFailed(f, e)
    \/ \E f \in Names, reason \in Reasons : MarkSkipped(f, reason)

SpecSession == InitSession /\ [][NextSession]_vars

\* ================================================================ claims
Running == pc \in {"loop", "upload", "trigger"}

\* The run began from a readable checkpoint file and the user did not turn
\* down a resume that was offered.
FromCheckpoint == Running /\ run.file.state = "ok" /\ run.choice \in {"none", "resume"}

\* C1: over runs that may crash anywhere, with every offered resume accepted
\* and until the checkpoint file is removed, no file whose upload was accepted
\* by the server is accepted a second time.
C1_NoSecondUpload == \A f \in Files : uploaded[f] <= 1

\* C2: in a run started against a readable checkpoint, upload_file is never
\* called for a filename the checkpoint lists in files_completed.
C2_CompletedNotTransferred ==
    FromCheckpoint => invoked \cap Range(run.file.rec.files_completed) = {}

\* C3: in a run started against a checkpoint that lists f in files_failed, with
\* f still a candidate and no in-batch duplicate, the loaded checkpoint is the
\* session of the run and f is in its transfer list; once the transfer of f
\* succeeded and was recorded, f is in files_completed and not in files_failed.
C3_FailedRetriedFromCheckpoint ==
    \A f \in Files :
        (/\ FromCheckpoint
         /\ run.file.rec.files_failed[f] # NoError
         /\ f \in Range(run.candidates)
         /\ session.rec.files_skipped[f] = 0)
        => /\ run.choice = "resume"
           /\ f \in Range(valid_results)
           /\ (f \in Range(session.rec.files_completed)
               => session.rec.files_failed[f] = NoError)

\* C4: in a run resumed from a checkpoint, upload_file is never called for a
\* filename the checkpoint lists in files_skipped.
C4_SkippedNotTransferred ==
    (Running /\ run.choice = "resume")
    => invoked \cap Keys(run.file.rec.files_skipped, 0) = {}

\* C5: in every checkpoint, in memory or on disk, files_completed, files_failed
\* and files_skipped are pairwise disjoint and files_pending >= 0.
Consistent(s) ==
    /\ Range(s.files_completed) \cap Keys(s.files_failed, NoError) = {}
    /\ Range(s.files_completed) \cap Keys(s.files_skipped, 0) = {}
    /\ Keys(s.files_failed, NoError) \cap Keys(s.files_skipped, 0) = {}
    /\ files_pending(s) >= 0
C5_CheckpointConsistent ==
    /\ session.some => Consistent(session.rec)
    /\ disk.state = "ok" => Consistent(disk.rec)

\* C6: in every run, of the candidate files that carry one fingerprint the
\* first is in the transfer list (unless the resumed checkpoint already lists
\* it as completed); each later one is marked skipped with the first one's
\* name, is not in the transfer list, and is never handed to upload_file.
FirstWith(cands, hashes, f) ==
    LET i == CHOOSE j \in 1..Len(cands) :
                 /\ hashes[cands[j]] = hashes[f]
                 /\ \A k \in 1..(j - 1) : hashes[cands[k]] # hashes[f]
    IN  cands[i]
C6_FirstOfFingerprintTransferred ==
    Running =>
        \A f \in Range(run.candidates) :
            session.rec.file_hashes[f] # NoHash =>
                LET first == FirstWith(run.candidates, session.rec.file_hashes, f)
                IN  IF f = first
                    THEN \/ f \in Range(valid_results)
                         \/ /\ run.choice = "resume"
                            /\ f \in Range(run.file.rec.files_completed)
                    ELSE /\ session.rec.files_skipped[f] = first
                         /\ f \notin Range(valid_results)
                         /\ f \notin invoked

\* A step that sends a request, and a step in which the answer arrives.
SendStep == inflight' > inflight
AnswerStep == upc = "wait" /\ upc' # "wait"

\* C7: the requests of one upload_file call go out one at a time and in index
\* order: the first carries chunk 0, each next one the same or the next index,
\* and none is sent while another is outstanding.
C7_ChunksInOrder ==
    /\ [](inflight \in {0, 1})
    /\ [][SendStep =>
            /\ inflight = 0
            /\ sent'.chunk_index >= 0
            /\ sent'.chunk_index \in {sent.chunk_index, sent.chunk_index + 1}]_vars
C7_Witness == upc = "wait" /\ sent.chunk_index = 1 /\ retry = 2

\* C8: an accepted attempt that follows fewer than max_retries failed ones lets
\* the transfer proceed (to the next chunk, or to success on the final chunk);
\* when max_retries attempts in a row fail with timeouts, connection errors or
\* error statuses, upload_file returns a failure naming the chunk's position,
\* and sends nothing more.
Transient == {"timeout", "connect", "err"}
C8_RetryThenProceedOrFail ==
    [][AnswerStep =>
        /\ (response' = "ok" /\ chunk_index < chunks_total - 1)
            => /\ upc' = "attempt"
               /\ chunk_index' = chunk_index + 1
               /\ ~result'.done
        /\ (response' = "ok" /\ chunk_index = chunks_total - 1)
            => /\ upc' = "done"
               /\ result'.success
        /\ (response' \in Transient /\ retry = max_retries - 1 /\ forced = 0)
            => /\ upc' = "done"
               /\ result'.done /\ ~result'.success
               /\ result'.error.chunk = chunk_index + 1
               /\ result'.error.total = chunks_total
               /\ inflight' = 0]_vars
C8_Witness ==
    /\ upc = "done" /\ retry = max_retries - 1 /\ forced = 0
    /\ result.error = Err("Timeout on chunk", 2, 2)

\* C9: a 401 answered to a bare token, or to an AuthSession whose forced
\* refresh fails, ends upload_file at once with the authentication failure.
AuthFailure == Failure(Err("Authentication failed - please re-login", 0, 0))
C9_AuthRejectionAborts ==
    [][(/\ AnswerStep
        /\ response' = "e401"
        /\ \/ token_kind = "str"
           \/ /\ Len(refreshes') > Len(refreshes)
              /\ refresh_raises(refreshes'[Len(refreshes')].outcome))
       => /\ result' = AuthFailure
          /\ upc' = "done"
          /\ inflight' = 0
          /\ chunk_index' = chunk_index]_vars
C9_Witness ==
    /\ token_kind = "AuthSession" /\ response = "e401"
    /\ result = AuthFailure /\ chunk_index = 1 /\ retry = 1

\* C10: after a 401 to chunk k on any attempt, with the forced refresh
\* succeeding, the next request is chunk k again, and at most one refresh is
\* forced for a chunk.
C10_ResendAfterRefresh ==
    /\ (upc = "wait" /\ resend # -1)
        => (sent.chunk_index = resend /\ sent.token = auth_session.access_token)
    /\ forced <= 1

\* C11: upload_file returns success only when every chunk 0..chunks_total-1
\* received an answer with a status below 400 on some attempt.
C11_SuccessOnlyIfAllChunksAccepted ==
    result.success => acked = 0..(chunks_total - 1)

\* C12: once a refresh has failed in a batch run (the outcome of a file is the
\* AuthError of get_token or the authentication failure after a 401), no
\* transfer is started for any later file of the run.
AuthErrors == {"Upload error: AuthError", "Authentication failed - please re-login"}
C12_RefreshFailureHaltsBatch ==
    Running =>
        \A i \in 1..Len(upload_results) :
            upload_results[i].error.kind \in AuthErrors => Cardinality(invoked) <= i

\* C13: a run that is neither killed nor ended by an authentication error
\* returns with one outcome for every file of its transfer list, each failure
\* recorded in files_failed with its error.
RunEnds == Running /\ pc' = "idle"
C13_PerFileFailureNeverStopsBatch ==
    [][(RunEnds /\ ended' \notin {"killed", "AuthError"})
       => /\ ended' = "returned"
          /\ Len(upload_results) = Len(valid_results)
          /\ \A i \in 1..Len(upload_results) :
                ~upload_results[i].success
                => session.rec.files_failed[valid_results[i]] = upload_results[i].error]_vars

\* C14: a refresh() call either succeeds and replaces access_token,
\* refresh_token and expires_at together, or raises AuthError and leaves all
\* three fields as they were.
RefreshStep == Len(refreshes') > Len(refreshes)
C14_RefreshAllOrNothing ==
    [][RefreshStep =>
        IF refresh_raises(refreshes'[Len(refreshes')].outcome)
        THEN auth_session' = auth_session
        ELSE /\ auth_session'.access_token # auth_session.access_token
             /\ auth_session'.refresh_token # auth_session.refresh_token
             /\ auth_session'.expires_at = now + expires_in_default]_vars

\* C15: get_token refreshes exactly when the AuthSession is expiring: a step
\* that fetches the token for a send logs one "pre" refresh if time.time() >=
\* expires_at - buffer_seconds and none otherwise (so an expired credential
\* has exactly one refresh before the first send, an unexpired one none), the
\* request carries the current access token, and every other refresh follows
\* a 401.
GetTokenStep == upc = "attempt" /\ upc' # "attempt"
Expiring == token_kind = "AuthSession" /\ now >= auth_session.expires_at - buffer_seconds
C15_RefreshIffExpired ==
    /\ [][GetTokenStep =>
            /\ IF Expiring
               THEN /\ Len(refreshes') = Len(refreshes) + 1
                    /\ refreshes'[Len(refreshes')].at = "pre"
               ELSE /\ refreshes' = refreshes
                    /\ auth_session' = auth_session
            /\ sent = NoSent => Len(refreshes') = (IF Expiring THEN 1 ELSE 0)
            /\ upc' = "wait" => sent'.token = auth_session'.access_token]_vars
    /\ [][RefreshStep =>
            \/ GetTokenStep /\ Expiring
            \/ AnswerStep /\ response' = "e401" /\ token_kind = "AuthSession"]_vars
C15_Witness ==
    /\ upc = "wait" /\ sent.chunk_index = 0 /\ retry = 0 /\ sent.token = 1
    /\ refreshes = <<[at |-> "pre", outcome |-> "ok"]>>

\* C16: while a run is under way, the checkpoint file on disk holds the outcome
\* of every file that has one: before the next transfer begins and before the
\* processing notification of that file is sent.
Holds(rec, f, r) ==
    IF r.success
    THEN f \in Range(rec.files_completed) /\ rec.dataset_ids[f] = r.dataset_id
    ELSE rec.files_failed[f] = r.error
C16_OutcomePersistedBeforeNext ==
    Running =>
        \A i \in 1..Len(upload_results) :
            disk.state = "ok" /\ Holds(disk.rec, valid_results[i], upload_results[i])

\* C17: a run that is killed leaves the checkpoint file as it was or as a
\* complete record: a kill during save never leaves an empty, truncated or
\* unparsable file.
C17_SaveAtomic ==
    [][(RunEnds /\ ended' = "killed")
       => (disk'.state = "corrupt" => disk.state = "corrupt")]_vars

\* C18: when a run that returned deletes the checkpoint file, the checkpoint
\* lists no file as failed or skipped and none is pending.
DeletesCheckpoint ==
    RunEnds /\ ended' = "returned" /\ disk.state # "absent" /\ disk'.state = "absent"
C18_DeletedOnlyWhenAllCompleted ==
    [][DeletesCheckpoint =>
        /\ Keys(session.rec.files_failed, NoError) = {}
        /\ Keys(session.rec.files_skipped, 0) = {}
        /\ files_pending(session.rec) = 0]_vars

\* C19: load(save(c)) equals c in every field: whenever save has written the
\* checkpoint of the run, the record load reads from the file is the record
\* in memory.
SaveStep == disk' # disk /\ disk'.state = "ok"
C19_SaveLoadRoundTrip ==
    [][SaveStep => /\ find_existing_session(disk').some
                   /\ find_existing_session(disk').rec = session'.rec]_vars
C19_Witness ==
    /\ Running /\ disk.state = "ok" /\ disk.rec = session.rec
    /\ run.choice = "resume" /\ session.rec.session_id = 1 /\ runs = 2
    /\ session.rec.files_completed # <<>>
    /\ Keys(session.rec.files_failed, NoError) # {}
    /\ Keys(session.rec.files_skipped, 0) # {}
    /\ Keys(session.rec.dataset_ids, NoKey) # {}

\* C20: the step in which a success is recorded (mark_completed(f, id)) takes
\* f out of files_failed, appends f to files_completed, sets dataset_ids[f] to
\* id, lowers files_pending by one when f had no entry before, and changes
\* nothing else of the checkpoint.
MarkCompletedStep == pc = "upload" /\ pc' = "trigger"
NoEntry(s, f) ==
    /\ f \notin Range(s.files_completed)
    /\ s.files_failed[f] = NoError
    /\ s.files_skipped[f] = 0
C20_MarkCompletedFrame ==
    [][MarkCompletedStep =>
        LET s == session.rec
            t == session'.rec
            f == file.name
        IN  /\ t.files_failed[f] = NoError
            /\ t.files_completed = Append(s.files_completed, f)
            /\ t.dataset_ids[f] = result.dataset_id
            /\ NoEntry(s, f) => files_pending(t) = files_pending(s) - 1
            /\ \A g \in Files \ {f} : /\ t.files_failed[g] = s.files_failed[g]
                                       /\ t.dataset_ids[g] = s.dataset_ids[g]
            /\ t.files_skipped = s.files_skipped
            /\ t.file_hashes = s.file_hashes
            /\ t.files_total = s.files_total
            /\ t.session_id = s.session_id /\ t.created_at = s.created_at
            /\ t.data_directory = s.data_directory
            /\ t.metadata_file = s.metadata_file /\ t.api_url = s.api_url]_vars
C20_Witness ==
    /\ pc = "trigger" /\ run.choice = "resume"
    /\ run.file.rec.files_failed[file.name] # NoError
    /\ session.rec.files_failed[file.name] = NoError
    /\ file.name \in Range(session.rec.files_completed)

\* C21: for every checkpoint the batch holds in memory or on disk and every
\* filename f, should_process(f) is false exactly when f is in files_completed
\* or in files_skipped; it is true for a failed file that is in neither and for
\* a filename with no entry at all.
Checkpoints ==
    (IF session.some THEN {session.rec} ELSE {})
    \cup (IF disk.state = "ok" THEN {disk.rec} ELSE {})
C21_ShouldProcess ==
    \A s \in Checkpoints, f \in Files :
        LET done == f \in Range(s.files_completed) \/ s.files_skipped[f] # 0
        IN  /\ should_process(s, f) <=> ~done
            /\ (s.files_failed[f] # NoError /\ ~done) => should_process(s, f)
            /\ NoEntry(s, f) => should_process(s, f)
C21_Witness ==
    /\ session.some
    /\ \E f, g, h, u \in Files :
           /\ session.rec.files_failed[f] # NoError /\ should_process(session.rec, f)
           /\ g \in Range(session.rec.files_completed) /\ ~should_process(session.rec, g)
           /\ session.rec.files_skipped[h] # 0 /\ ~should_process(session.rec, h)
           /\ NoEntry(session.rec, u) /\ session.rec.files_failed[u] = NoError
           /\ should_process(session.rec, u)

\* C22: a run that finds an unparsable checkpoint file starts as if there were
\* none: a new session with nothing completed or failed, every candidate either
\* in the transfer list or skipped as a duplicate of a file in it; and the
\* first save of that run leaves a valid record of the session on disk.
StartsFromCorrupt == pc = "idle" /\ pc' = "loop" /\ disk.state = "corrupt"
FirstSave ==
    /\ pc = "upload" /\ pc' \in {"loop", "trigger"}
    /\ run.file.state = "corrupt" /\ upload_results = <<>>
C22_CorruptTreatedAsAbsent ==
    [][/\ StartsFromCorrupt =>
            LET s == session'.rec
            IN  /\ run'.choice = "none"
                /\ s.session_id = runs' /\ s.created_at = now
                /\ s.files_completed = <<>>
                /\ Keys(s.files_failed, NoError) = {}
                /\ Keys(s.dataset_ids, NoKey) = {}
                /\ Range(valid_results') \cup Keys(s.files_skipped, 0) = dir
                /\ \A f \in Keys(s.files_skipped, 0) :
                       s.files_skipped[f] \in Range(valid_results')
       /\ FirstSave => (disk'.state = "ok" /\ disk'.rec = session'.rec)]_vars

\* C23: whatever happens to the start-processing notification of a transferred
\* file (unless the process is killed), the coordinator goes on to the next
\* file of its list with the file still recorded as completed.
NotificationStep == pc = "trigger" /\ pc' # "trigger" /\ ended' # "killed"
C23_NotificationFailureIsSoft ==
    [][NotificationStep =>
        /\ pc' = "loop" /\ idx' = idx + 1
        /\ valid_results' = valid_results
        /\ upload_results' = upload_results
        /\ session' = session
        /\ valid_results[idx] \in Range(session'.rec.files_completed)
        /\ disk' = disk]_vars

\* C24: an outcome returned by upload_file is a success with a dataset id and
\* no error, or a failure with an error text and no dataset id; and every
\* filename in files_completed has a dataset id in dataset_ids.
WellFormed(r) ==
    \/ r.success /\ r.dataset_id # NoId /\ r.error = NoError
    \/ ~r.success /\ r.dataset_id = NoId /\ r.error.kind # ""
C24_OutcomeWellFormed ==
    /\ result.done => WellFormed(result)
    /\ \A s \in Checkpoints : \A f \in Range(s.files_completed) :
           s.dataset_ids[f] \notin {NoKey, NoId}

\* C25: get_file_identifier depends only on the size of the file, its first
\* min(sample, size) bytes and, for a file larger than the sample, its last
\* sample bytes: two files that agree on these get the same digest whatever
\* lies between, and a digest computed earlier for a file (cached in a
\* checkpoint) is the digest a call returns now.
ByteSeqs == UNION {[1..n -> {0, 1}] : n \in 0..MaxFileSize}
Components(bytes, sample) ==
    [ size |-> Len(bytes),
      first |-> [i \in 1..Min(sample, Len(bytes)) |-> bytes[i]],
      last |-> IF Len(bytes) > sample
               THEN [i \in 1..sample |-> bytes[Len(bytes) - sample + i]]
               ELSE <<>> ]
SameComponentsSameDigest ==
    \A sample \in 1..SampleSize : \A a, b \in ByteSeqs :
        Components(a, sample) = Components(b, sample)
            => get_file_identifier(a, sample) = get_file_identifier(b, sample)
C25_FingerprintDeterministic ==
    /\ session.some => SameComponentsSameDigest
    /\ \A s \in Checkpoints : \A f \in Keys(s.file_hashes, NoHash) :
           /\ s.file_hashes[f] = get_file_identifier(FileBytes(f), SampleSize)
           /\ \A g \in Keys(s.file_hashes, NoHash) :
                  Components(FileBytes(f), SampleSize) = Components(FileBytes(g), SampleSize)
                      => s.file_hashes[f] = s.file_hashes[g]
C25_Witness ==
    /\ session.some /\ runs = 2
    /\ session.rec.session_id = 2
    /\ \E f, g \in Keys(session.rec.file_hashes, NoHash) :
           /\ FileBytes(f) # FileBytes(g)
           /\ Len(FileBytes(f)) > 2 * SampleSize
           /\ session.rec.file_hashes[f] = session.rec.file_hashes[g]
           /\ session.rec.files_skipped[g] = f

\* C26: while upload_file is working on a file, and when the run is killed at
\* that point, the checkpoint file is not written and the session's entries
\* are not touched, so the file is in no collection it was not in before; and
\* the next run, if it resumes the checkpoint, finds the same candidate files
\* in the directory and computes no fingerprint the checkpoint did not have,
\* has the file in its transfer list.
InTransfer == pc = "upload" /\ upc # "done"
ResumeAfterInterrupt ==
    /\ pc = "idle" /\ pc' = "loop" /\ run'.choice = "resume"
    /\ interrupted.name # 0 /\ run'.candidates = interrupted.candidates
    /\ session'.rec.file_hashes = run'.file.rec.file_hashes
GetCachedStep == apc = "start" /\ apc' = "returned"
C27_GetCachedSession ==
    [][GetCachedStep =>
        LET loaded == load_auth_session(cache)
        IN  IF ~loaded.some
            THEN cached'.kind = "None" /\ cached'.refresh = "none" /\ cache' = cache
            ELSE IF ~(now >= loaded.session.expires_at - buffer_seconds)
            THEN /\ cached'.kind = "AuthSession" /\ cached'.session = loaded.session
                 /\ cached'.refresh = "none" /\ cache' = cache
            ELSE /\ cached'.refresh # "none"
                 /\ IF refresh_raises(cached'.refresh)
                    THEN cached'.kind = "None"
                    ELSE /\ cached'.kind = "AuthSession"
                         /\ cached'.session.access_token # loaded.session.access_token
                         /\ cached'.session.expires_at = now + expires_in_default
                         /\ load_auth_session(cache').some
                         /\ load_auth_session(cache').session = cached'.session]_vars

\* C28: is_expired(buffer) is true exactly when now >= expires_at - buffer: a
\* credential with 200 s left is expiring for buffer 300 and not for buffer
\* 100, one past its expiry is expiring, one with 3600 s left is not.
C28_IsExpired ==
    expired.buffer # 0 =>
        LET left == expired.expires_at - expired.now
        IN  /\ expired.value <=> (expired.now >= expired.expires_at - expired.buffer)
            /\ (left = 200 /\ expired.buffer = 300) => expired.value
            /\ (left = 200 /\ expired.buffer = 100) => ~expired.value
            /\ left < 0 => expired.value
            /\ left = 3600 => ~expired.value
C28_Witness ==
    /\ expired.buffer = buffer_seconds
    /\ expired.now = expired.expires_at - expired.buffer
    /\ expired.value

\* C29: for a file of s >= 1 bytes and chunk size c >= 1, chunks_total is
\* ceil(s / c); every request for a chunk before the last carries exactly c
\* bytes, the last carries the remaining s - (chunks_total - 1) * c bytes
\* (between 1 and c); each chunk is the part of the file at its index, so the
\* chunks in index order make up the file.
RECURSIVE Joined(_, _, _, _)
Joined(bytes, c, i, n) ==
    IF i >= n THEN <<>> ELSE read(bytes, i * c, c) \o Joined(bytes, c, i + 1, n)
ChunkingOfAllSizes ==
    \A s \in 1..MaxFileSize, c \in 1..MaxFileSize :
        LET n == chunks_of(s, c)
            bytes == [i \in 1..s |-> i]
        IN  /\ (n - 1) * c < s /\ s <= n * c
            /\ \A i \in 0..(n - 2) : Len(read(bytes, i * c, c)) = c
            /\ Len(read(bytes, (n - 1) * c, c)) = s - (n - 1) * c
            /\ s - (n - 1) * c \in 1..c
            /\ Joined(bytes, c, 0, n) = bytes
C29_ChunkSizes ==
    upc = "wait" =>
        LET s == file.size
            c == ChunkSize
            i == sent.chunk_index
            size_i == IF i < chunks_total - 1 THEN c ELSE s - (chunks_total - 1) * c
        IN  /\ ChunkingOfAllSizes
            /\ s >= 1 /\ s = Len(file.bytes)
            /\ (chunks_total - 1) * c < s /\ s <= chunks_total * c
            /\ i \in 0..(chunks_total - 1)
            /\ Len(sent.data) = size_i /\ size_i \in 1..c
            /\ sent.data = SubSeq(file.bytes, i * c + 1, i * c + size_i)
            /\ fpos = i * c + size_i
            /\ i = chunks_total - 1 => fpos = s
C29_Witness ==
    /\ upc = "wait" /\ file.size = 2 * ChunkSize - 1 /\ chunks_total = 2
    /\ sent.chunk_index = 1 /\ Len(sent.data) = ChunkSize - 1 /\ retry = 1
    /\ sent.data = <<file.bytes[file.size]>>

\* C30: every request of one upload_file call, retries and resends after a
\* refresh included, carries the upload_id, the chunks_total and the metadata
\* fields of the call; they are the same as in the request before it.
RequestStep == upc = "attempt" /\ upc' = "wait"
SameUpload(a, b) ==
    /\ a.upload_id = b.upload_id
    /\ a.chunks_total = b.chunks_total
    /\ a.metadata = b.metadata
C30_SameUploadIdOnEveryRequest ==
    [][RequestStep =>
        /\ sent'.form.upload_id = base_form_data.upload_id
        /\ sent'.form.upload_id # NoForm.upload_id
        /\ sent'.form.chunks_total = chunks_total
        /\ sent'.form.metadata = file.name
        /\ sent'.form.chunk_index = chunk_index
        /\ sent # NoSent => SameUpload(sent'.form, sent.form)]_vars
C30_Witness ==
    /\ upc = "wait" /\ sent.chunk_index = 1 /\ retry = 2 /\ forced = 1
    /\ sent.form.upload_id = base_form_data.upload_id
    /\ sent.form.chunks_total = 2

\* C31: every request for a chunk is sent in the step that fetches the token
\* with get_token() and carries the access token the credential holds at that
\* moment; the access token is only ever replaced by a newer one, so no request
\* sent after a refresh (before a send, or forced by a 401) carries a token
\* from before it.
C31_FreshTokenOnEverySend ==
    /\ [][SendStep => /\ GetTokenStep
                      /\ sent'.token = auth_session'.access_token
                      /\ sent'.token >= sent.token]_vars
    /\ [][/\ auth_session'.access_token >= auth_session.access_token
          /\ (RefreshStep /\ refreshes'[Len(refreshes')].outcome = "ok")
                => auth_session'.access_token > sent.token]_vars
C31_Witness ==
    /\ pc = "upload" /\ upc = "wait" /\ sent.token = 2
    /\ refreshes = <<[at |-> "pre", outcome |-> "ok"], [at |-> "forced", outcome |-> "ok"]>>

\* C32: whatever the server and the network answer, upload_file returns, with
\* one outcome that does not change afterwards; it makes at most max_retries
\* attempts for a chunk, 401 answers followed by a successful refresh counted
\* like the others, and so sends at most chunks_total * max_retries requests.
C32_UploadFileTerminates ==
    /\ <>[](upc = "done" /\ result.done)
    /\ [](result.done <=> upc = "done")
    /\ [][result.done => result' = result]_vars
    /\ [](/\ retry < max_retries
          /\ requests <= chunk_index * max_retries + retry + 1
          /\ requests <= chunks_total * max_retries)
C32_Witness ==
    /\ upc = "done" /\ chunks_total = 2
    /\ requests = chunks_total * max_retries
    /\ forced = max_retries

\* C33: a run goes on when the hashing of a candidate file raises: the file
\* gets no entry in file_hashes, is not marked skipped, no file is marked
\* skipped as a duplicate of it, and it is in the transfer list (unless the
\* resumed checkpoint lists it as completed); a run that returns has handed
\* it to upload_file.
Transferable(f) ==
    \/ f \in Range(valid_results)
    \/ run.choice = "resume" /\ f \in Range(run.file.rec.files_completed)
C33_HashFailureIsSoft ==
    /\ [](Running =>
            \A f \in run.unhashed :
                /\ session.rec.file_hashes[f] = NoHash
                /\ session.rec.files_skipped[f] = 0
                /\ \A g \in Files : session.rec.files_skipped[g] # f
                /\ Transferable(f))
    /\ [][(RunEnds /\ ended' = "returned")
          => run.unhashed \cap Range(valid_results) \subseteq invoked]_vars
C33_Witness ==
    /\ pc = "upload" /\ file.name \in run.unhashed
    /\ \E g \in Range(valid_results) :
           /\ g # file.name /\ FileBytes(g) = FileBytes(file.name)
           /\ session.rec.file_hashes[g] # NoHash

\* C34: the hashing step of a run leaves every entry the checkpoint it starts
\* from has in file_hashes as it is, adds entries only for candidate files
\* that had none, adds one (the file's digest) for every such candidate whose
\* hashing does not raise, and the rest of the run changes no entry.
HashingStep == pc = "idle" /\ pc' = "loop"
C34_HashesOnlyForUncached ==
    [][/\ HashingStep =>
            LET old == IF run'.choice = "resume" THEN disk.rec.file_hashes
                       ELSE EmptySession.file_hashes
                new == session'.rec.file_hashes
            IN  /\ \A f \in Files : old[f] # NoHash => new[f] = old[f]
                /\ \A f \in Files :
                       (old[f] = NoHash /\ new[f] # NoHash)
                       => /\ f \in Range(run'.candidates)
                          /\ new[f] = get_file_identifier(FileBytes(f), SampleSize)
                /\ \A f \in Range(run'.candidates) :
                       (old[f] = NoHash /\ f \notin run'.unhashed) => new[f] # NoHash
       /\ (Running /\ pc' # "idle")
            => session'.rec.file_hashes = session.rec.file_hashes]_vars
C34_Witness ==
    /\ Running /\ run.choice = "resume"
    /\ \E f, g \in Range(run.candidates) :
           /\ run.file.rec.file_hashes[f] # NoHash
           /\ session.rec.file_hashes[f] = run.file.rec.file_hashes[f]
           /\ run.file.rec.file_hashes[g] = NoHash
           /\ session.rec.file_hashes[g] # NoHash

\* C35: mark_failed(f, e) sets files_failed[f] to e, whatever error f had
\* before, so that the checkpoint and its written form hold one failure entry
\* for f, and changes nothing else of the checkpoint.
MarkFailedCall == call'.op = "mark_failed"
C35_MarkFailedFrame ==
    [][MarkFailedCall =>
        LET s == session.rec
            t == session'.rec
            f == call'.filename
        IN  /\ t.files_failed[f] = call'.error
            /\ Cardinality({m \in dump(t).files_failed : m[1] = f}) = 1
            /\ \A g \in Files \ {f} : t.files_failed[g] = s.files_failed[g]
            /\ t.files_completed = s.files_completed
            /\ t.files_skipped = s.files_skipped
            /\ t.dataset_ids = s.dataset_ids
            /\ t.file_hashes = s.file_hashes
            /\ t.files_total = s.files_total]_vars
C35_Witness ==
    /\ call.op = "mark_failed"
    /\ call.before # NoError /\ call.before # call.error
    /\ session.rec.files_failed[call.filename] = call.error

\* C36: in a run that is not killed, the start-processing request is sent once
\* for every file whose transfer succeeded, in the step after the one that
\* marked the file completed and saved the checkpoint, and for no other file.
Notified(f) == Cardinality({i \in 1..Len(notified) : notified[i] = f})
C36_NotifiedOncePerSuccess ==
    /\ [](Running =>
            /\ \A i \in 1..Len(upload_results) :
                   Notified(valid_results[i]) =
                       IF /\ upload_results[i].success
                          /\ ~(pc = "trigger" /\ i = Len(upload_results))
                       THEN 1 ELSE 0
            /\ \A f \in Range(notified) :
                   \E i \in 1..Len(upload_results) :
                       valid_results[i] = f /\ upload_results[i].success)
    /\ [][Len(notified') > Len(notified)
          => /\ pc = "trigger"
             /\ notified' = Append(notified, valid_results[idx])
             /\ valid_results[idx] \in Range(session.rec.files_completed)
             /\ upload_results[Len(upload_results)].success]_vars
    /\ [][(RunEnds /\ ended' # "killed")
          => \A i \in 1..Len(upload_results) :
                upload_results[i].success => Notified(valid_results[i]) = 1]_vars

\* C37: a run that ends with every candidate file of the directory in
\* files_completed (listed there by the resumed checkpoint, or transferred
\* successfully in this run) leaves no checkpoint file: both when the transfer
\* loop ran and returned, and when do_upload found nothing left to transfer.
AllCompleted(cands, s) == Range(cands) \subseteq Range(s.files_completed)
NothingLeft == pc = "idle" /\ runs' = runs + 1 /\ ended' = "nothing to upload"
C37_NoCheckpointAfterFullCompletion ==
    [][/\ (RunEnds /\ ended' = "returned" /\ AllCompleted(run.candidates, session.rec))
            => disk'.state = "absent"
       /\ (NothingLeft /\ AllCompleted(candidates(dir), disk.rec))
            => disk'.state = "absent"]_vars

\* C38: in every checkpoint reached from create by mark_completed, mark_failed
\* and mark_skipped calls, files_completed lists no filename twice and the
\* keys of dataset_ids are the filenames in files_completed.
NoDuplicates(seq) == \A i, j \in 1..Len(seq) : seq[i] = seq[j] => i = j
C38_CompletedOnceWithId ==
    \A s \in Checkpoints :
        /\ NoDuplicates(s.files_completed)
        /\ Keys(s.dataset_ids, NoKey) = Range(s.files_completed)

\* C39: for a file without a path, a missing file and a file of size 0
\* upload_file sends no request and returns a failure with an error text; and
\* whenever it returns success, the last thing it did was to receive the
\* response to a request for the final chunk.
Degenerate == ~file.path \/ ~file.exists \/ file.size = 0
C39_NothingSentForEmptyOrMissing ==
    /\ Degenerate =>
          /\ requests = 0 /\ sent = NoSent /\ inflight = 0
          /\ upc \in {"call", "done"}
          /\ upc = "done" => /\ result.done /\ ~result.success
                             /\ result.error.kind # ""
                             /\ result.dataset_id = NoId
    /\ (file.path /\ file.exists /\ file.size = 0) => chunks_total = 0
    /\ result.success =>
          /\ chunks_total >= 1 /\ requests >= 1 /\ inflight = 0
          /\ sent.chunk_index = chunks_total - 1
          /\ response \in {"ok", "e401"}
C39_Witness ==
    /\ upc = "done" /\ file.path /\ file.exists /\ file.size = 0
    /\ requests = 0
    /\ result = Failure(Err("Upload completed but no response received", 0, 0))

====
